---- MODULE Spec2Model ----
(***************************************************************************)
(* The plan -> execute -> verify -> retry agent loop of src/main.py.       *)
(*                                                                         *)
(* Text is a sequence of tokens (one-character strings, plus the two      *)
(* tokens of a markdown fence and one token per JSON document).            *)
(* Python values whose type the code does not fix are tagged records       *)
(* [type |-> ..., val |-> ...].  The Generation Client is the environment: *)
(* each call either raises or returns one of a small set of replies.  A    *)
(* reply may be no JSON at all, a JSON document that is not an object, or  *)
(* an object in which fields of the prompt's schema are absent; the        *)
(* string-valued fields are strings when present, and the verdict's passed *)
(* field is a boolean or a string.                                         *)
(***************************************************************************)
EXTENDS Integers, Sequences, FiniteSets, TLC

\* ------------------------------------------------------------------ bounds
\* the largest max_retries solve is called with
MaxRetries == 1

\* ---------------------------------------------------------- Python values
None == [type |-> "NoneType"]
PyStr(s) == [type |-> "str", val |-> s]
PyBool(b) == [type |-> "bool", val |-> b]
PyList(l) == [type |-> "list", val |-> l]
PyDict(d) == [type |-> "dict", val |-> d]

\* dict.get(key, default)
Get(d, key, default) == IF key \in DOMAIN d.val THEN d.val[key] ELSE default

\* truth value testing, as the statement "if passed:" applies it
Truthy(v) ==
    CASE v.type = "bool" -> v.val
      [] v.type = "str" -> Len(v.val) > 0
      [] v.type = "list" -> Len(v.val) > 0
      [] v.type = "dict" -> DOMAIN v.val # {}
      [] OTHER -> FALSE

\* ------------------------------------------------------------------ text
Whitespace == {" ", "\n"}

RECURSIVE LStrip(_)
LStrip(s) == IF s # <<>> /\ Head(s) \in Whitespace THEN LStrip(Tail(s)) ELSE s

RECURSIVE RStrip(_)
RStrip(s) ==
    IF s # <<>> /\ s[Len(s)] \in Whitespace
    THEN RStrip(SubSeq(s, 1, Len(s) - 1))
    ELSE s

\* str.strip()
Strip(s) == RStrip(LStrip(s))

\* s[:n]
Prefix(s, n) == SubSeq(s, 1, IF Len(s) < n THEN Len(s) ELSE n)

\* the markdown code-fence marker (three backquotes), one token
Fence == "<fence>"

\* str.replace(fence + "json", ""): every fence token followed by the word json
RECURSIVE ReplaceFenceJson(_)
ReplaceFenceJson(s) ==
    IF s = <<>> THEN <<>>
    ELSE IF Len(s) >= 2 /\ s[1] = Fence /\ s[2] = "json"
         THEN ReplaceFenceJson(SubSeq(s, 3, Len(s)))
         ELSE <<Head(s)>> \o ReplaceFenceJson(Tail(s))

\* str.replace(fence, "")
ReplaceFence(s) == SelectSeq(s, LAMBDA t : t # Fence)

\* ------------------------------------------------------- JSON documents
SummaryLimit == 250

Chars(n, c) == [i \in 1..n |-> c]

ShortExplanation == <<" ", "a", " ", "b", "\n">>
LongExplanation == <<" ">> \o Chars(SummaryLimit - 1, "x") \o <<"y", "z", " ">>

check_ok == [check_name |-> "arithmetic", passed |-> TRUE, details |-> "ok"]
check_bad == [check_name |-> "constraints", passed |-> FALSE, details |-> "bad"]

\* what json.loads yields for each document token
JsonTable ==
    [ E_full |-> PyDict([proposed_answer |-> PyStr(<<"4", "2">>),
                         explanation |-> PyStr(ShortExplanation),
                         intermediate |-> PyDict([notes |-> PyStr(<<"n">>)])]),
      E_long |-> PyDict([proposed_answer |-> PyStr(<<"7">>),
                         explanation |-> PyStr(LongExplanation)]),
      E_notes |-> PyDict([proposed_answer |-> PyStr(<<"4", "2">>),
                          explanation |-> PyStr(ShortExplanation),
                          intermediate |-> PyDict([notes |-> PyStr(<<"m">>)])]),
      E_noanswer |-> PyDict([explanation |-> PyStr(ShortExplanation)]),
      E_empty |-> PyDict(<<>>),
      V_pass |-> PyDict([passed |-> PyBool(TRUE),
                         checks |-> PyList(<<check_ok>>),
                         issues |-> PyStr(<<>>)]),
      V_fail |-> PyDict([passed |-> PyBool(FALSE),
                         checks |-> PyList(<<check_bad, check_ok>>),
                         issues |-> PyStr(<<"x">>)]),
      V_pass_badchecks |-> PyDict([passed |-> PyBool(TRUE),
                                   checks |-> PyList(<<check_bad>>),
                                   issues |-> PyStr(<<>>)]),
      V_fail_okchecks |-> PyDict([passed |-> PyBool(FALSE),
                                  checks |-> PyList(<<check_ok>>),
                                  issues |-> PyStr(<<>>)]),
      V_nopassed |-> PyDict([checks |-> PyList(<<check_ok>>),
                             issues |-> PyStr(<<>>)]),
      V_nochecks |-> PyDict([passed |-> PyBool(TRUE),
                             issues |-> PyStr(<<>>)]),
      V_strpassed |-> PyDict([passed |-> PyStr(<<"f", "a", "l", "s", "e">>),
                              checks |-> PyList(<<check_bad>>),
                              issues |-> PyStr(<<"x">>)]),
      A_list |-> PyList(<<>>) ]

\* json.loads(raw): surrounding whitespace is allowed, then exactly one
\* document; anything else raises JSONDecodeError
JsonLoads(raw) ==
    LET t == Strip(raw)
    IN IF Len(t) = 1 /\ t[1] \in DOMAIN JsonTable
       THEN [ok |-> TRUE, val |-> JsonTable[t[1]]]
       ELSE [ok |-> FALSE, val |-> None]

\* ---------------------------------------------------- Generation Client
\* what the service can answer to the three kinds of prompt; None is a
\* response without text
PlanReplies == { PyStr(<<"\n", "1", ".", "a", "\n">>), None }

ExecReplies ==
    { PyStr(<<"E_full">>),
      PyStr(<<"E_notes", "\n">>),
      PyStr(<<Fence, "json", "\n", "E_long", "\n", Fence>>),
      PyStr(<<"E_noanswer">>),
      PyStr(<<Fence, "\n", "E_empty", "\n", Fence, "\n">>),
      PyStr(<<"A_list">>),
      PyStr(<<"o", "o", "p", "s">>),
      None }

VerifyReplies ==
    { PyStr(<<"V_pass">>),
      PyStr(<<Fence, "json", "\n", "V_fail", "\n", Fence>>),
      PyStr(<<"V_pass_badchecks">>),
      PyStr(<<" ", "V_fail_okchecks">>),
      PyStr(<<"V_nopassed">>),
      PyStr(<<"V_nochecks">>),
      PyStr(<<"V_strpassed">>),
      PyStr(<<"V_pass", "V_pass">>),
      PyStr(<<"A_list">>) }

\* gemini_call returns resp.text or ""
gemini_call(reply) == IF reply = None THEN <<>> ELSE reply.val

\* ------------------------------------------------------------- Planner
PlannerPrompt(q) == [role |-> "PLANNER", question |-> q]

\* plan(question), given the service's reply to its prompt
plan(reply) == Strip(gemini_call(reply))

\* ------------------------------------------------------------ Executor
ExecutorPrompt(q, p) == [role |-> "EXECUTOR", question |-> q, plan_text |-> p]

\* the bare fence is removed before the fence followed by json
execute_SwappedReplace(reply) ==
    JsonLoads(ReplaceFenceJson(ReplaceFence(Strip(gemini_call(reply)))))

\* execute(question, plan_text), given the service's reply: the parsed
\* document, or ok = FALSE when json.loads raises
execute(reply) ==
    JsonLoads(ReplaceFence(ReplaceFenceJson(Strip(gemini_call(reply)))))

\* ------------------------------------------------------------ Verifier
\* the intermediate notes are embedded too
VerifierPrompt_WithNotes(q, e) ==
    [role |-> "VERIFIER", question |-> q,
     proposed_answer |-> Get(e, "proposed_answer", PyStr(<<>>)),
     explanation |-> Get(e, "explanation", PyStr(<<>>)),
     intermediate |-> Get(e, "intermediate", PyDict(<<>>))]

VerifierPrompt(q, e) ==
    [role |-> "VERIFIER", question |-> q,
     proposed_answer |-> Get(e, "proposed_answer", PyStr(<<>>)),
     explanation |-> Get(e, "explanation", PyStr(<<>>))]

\* verify_llm(question, exec_result), given the service's reply
verify_llm(reply) ==
    JsonLoads(ReplaceFence(ReplaceFenceJson(Strip(gemini_call(reply)))))

\* ---------------------------------------------- short user-facing reasoning
\* summarize_short without the slice
summarize_short_NoCut(e) == Strip(Get(e, "explanation", PyStr(<<>>)).val)

summarize_short(e) ==
    Prefix(Strip(Get(e, "explanation", PyStr(<<>>)).val), SummaryLimit)

\* ---------------------------------------------------------- agent loop
FailureSentence ==
    << "T", "h", "e", " ", "a", "g", "e", "n", "t", " ", "c",
       "o", "u", "l", "d", " ", "n", "o", "t", " ", "f", "i",
       "n", "d", " ", "a", " ", "c", "o", "n", "s", "i", "s",
       "t", "e", "n", "t", " ", "s", "o", "l", "u", "t", "i",
       "o", "n", " ", "a", "f", "t", "e", "r", " ", "v", "e",
       "r", "i", "f", "i", "c", "a", "t", "i", "o", "n", "." >>

Questions == {"q1", "q2"}
\* negative arguments are not rejected by solve
RetryArgs == (0 - 2)..MaxRetries

\* the plan starts as an empty string
InitialMetadata_EmptyPlan == [plan |-> PyStr(<<>>), checks |-> <<>>, retries |-> 0]

\* metadata = {"plan": None, "checks": [], "retries": 0}
InitialMetadata == [plan |-> None, checks |-> <<>>, retries |-> 0]

\* range(max_retries)
RangeHasNext_OneLess(a, m) == a + 1 < m

\* range(max_retries + 2)
RangeHasNext_OneMore(a, m) == a + 1 < m + 2

\* for attempt in range(max_retries + 1): another index is left
RangeHasNext(a, m) == a + 1 < m + 1

\* the exception is caught and the loop goes on
Unhandled_Caught == "for"

\* no try/except encloses the calls of the loop body: where solve is after
\* one of them raises
Unhandled == "raised"

\* only the first plan is recorded
StorePlan_KeepFirst(md, p) ==
    IF md.plan = None THEN [md EXCEPT !.plan = PyStr(p)] ELSE md

\* metadata["plan"] = plan_text
StorePlan(md, p) == [md EXCEPT !.plan = PyStr(p)]

\* the checks are assigned instead of extended
ExtendChecks_Overwrite(md, v) ==
    [md EXCEPT !.checks = Get(v, "checks", PyList(<<>>)).val]

\* metadata["checks"].extend(verify_result.get("checks", []))
ExtendChecks(md, v) ==
    [md EXCEPT !.checks = @ \o Get(v, "checks", PyList(<<>>)).val]

\* acceptance recomputed from the individual checks
Accepts_FromChecks(v) ==
    LET cs == Get(v, "checks", PyList(<<>>)).val
    IN \A i \in 1..Len(cs) : cs[i].passed

\* passed = verify_result.get("passed", False); if passed:
Accepts(v) == Truthy(Get(v, "passed", PyBool(FALSE)))

\* retries reported as a count of attempts
SuccessResult_OneBased(e, md) ==
    [answer |-> Get(e, "proposed_answer", PyStr(<<>>)),
     status |-> "success",
     reasoning_visible_to_user |-> PyStr(summarize_short(e)),
     metadata |-> [md EXCEPT !.retries = @ + 1]]

\* the dict returned inside the loop
SuccessResult(e, md) ==
    [answer |-> Get(e, "proposed_answer", PyStr(<<>>)),
     status |-> "success",
     reasoning_visible_to_user |-> PyStr(summarize_short(e)),
     metadata |-> md]

\* the status is misspelt
FailedResult_Status(md) ==
    [answer |-> PyStr(<<>>),
     status |-> "failure",
     reasoning_visible_to_user |-> PyStr(FailureSentence),
     metadata |-> md]

\* a fresh list of checks is returned
FailedResult_Fresh(md) ==
    [answer |-> PyStr(<<>>),
     status |-> "failed",
     reasoning_visible_to_user |-> PyStr(FailureSentence),
     metadata |-> [md EXCEPT !.checks = <<>>]]

\* the dict returned after the loop
FailedResult(md) ==
    [answer |-> PyStr(<<>>),
     status |-> "failed",
     reasoning_visible_to_user |-> PyStr(FailureSentence),
     metadata |-> md]

VARIABLES
    question,       \* argument of solve
    max_retries,    \* argument of solve
    pc,             \* where solve is: "for", "plan", "execute", "verify",
                    \* "returned" or "raised"
    attempt,        \* the loop index, -1 before the first iteration
    metadata,       \* the accumulator
    plan_text,      \* local of the current iteration
    exec_result,    \* local of the current iteration
    result,         \* the value solve returned, None before it returns
    calls,          \* the Generation Client calls made so far, in order
    attempts,       \* plan, execution result and verdict of every iteration
                    \* whose verification was evaluated, in order
    other           \* the locals of a second invocation of solve that is
                    \* suspended at a Generation Client call, None when
                    \* solve is called once

vars == <<question, max_retries, pc, attempt, metadata, plan_text,
          exec_result, result, calls, attempts, other>>

\* solve(question, max_retries) is entered (line 170)
InitCall ==
    /\ question \in Questions
    /\ max_retries \in RetryArgs
    /\ pc = "for"
    /\ attempt = -1
    /\ metadata = InitialMetadata
    /\ plan_text = <<>>
    /\ exec_result = None
    /\ result = None
    /\ calls = <<>>
    /\ attempts = <<>>

Init == InitCall /\ other = None

LastVerdict == attempts[Len(attempts)].verify_result

\* the question is extended with the issues of the rejected attempt
PlannerInput_Feedback ==
    IF attempts # <<>>
       /\ Len(Get(LastVerdict, "issues", PyStr(<<>>)).val) > 0
    THEN "question and issues"
    ELSE question

\* line 176: plan(question)
PlannerInput == question

\* the plan of the first attempt is reused
ExecutorInput_FirstPlan ==
    IF attempts # <<>> THEN attempts[1].plan_text ELSE plan_text

\* line 180: execute(question, plan_text)
ExecutorInput == plan_text

\* the execution result of the first attempt is verified again
VerifierInput_FirstResult ==
    IF attempts # <<>> THEN attempts[1].exec_result ELSE exec_result

\* line 183: verify_llm(question, exec_result)
VerifierInput == exec_result

Call(prompt, reply) == [prompt |-> prompt, outcome |-> "text", reply |-> reply]
FailedCall(prompt) == [prompt |-> prompt, outcome |-> "error", reply |-> None]

\* the prompt of the call solve is about to make
NextPrompt ==
    CASE pc = "plan" -> PlannerPrompt(PlannerInput)
      [] pc = "execute" -> ExecutorPrompt(question, ExecutorInput)
      [] pc = "verify" -> VerifierPrompt(question, VerifierInput)

\* line 172-173: the loop takes its next index
LoopNext ==
    /\ pc = "for"
    /\ RangeHasNext(attempt, max_retries)
    /\ attempt' = attempt + 1
    /\ metadata' = [metadata EXCEPT !.retries = attempt + 1]
    /\ pc' = "plan"
    /\ UNCHANGED <<question, max_retries, plan_text, exec_result, result,
                   calls, attempts, other>>

\* lines 176-177, the service answering with one of replies
PlanWith(replies) ==
    /\ pc = "plan"
    /\ \E reply \in replies :
          /\ calls' = Append(calls, Call(PlannerPrompt(PlannerInput), reply))
          /\ plan_text' = plan(reply)
          /\ metadata' = StorePlan(metadata, plan(reply))
    /\ pc' = "execute"
    /\ UNCHANGED <<question, max_retries, attempt, exec_result, result,
                   attempts, other>>

PlanStep == PlanWith(PlanReplies)

\* line 180, the service answering with one of replies
ExecuteWith(replies) ==
    /\ pc = "execute"
    /\ \E reply \in replies :
          LET r == execute(reply)
          IN /\ calls' = Append(calls,
                                Call(ExecutorPrompt(question, ExecutorInput),
                                     reply))
             /\ IF r.ok
                THEN exec_result' = r.val /\ pc' = "verify"
                ELSE exec_result' = exec_result /\ pc' = Unhandled
    /\ UNCHANGED <<question, max_retries, attempt, metadata, plan_text,
                   result, attempts, other>>

ExecuteStep == ExecuteWith(ExecReplies)

\* lines 183-193: verify, extend the checks, return on acceptance, the
\* service answering with one of replies
VerifyWith(replies) ==
    /\ pc = "verify"
    /\ IF VerifierInput.type # "dict"
       THEN \* exec_result.get raises before the prompt is built
            /\ pc' = Unhandled
            /\ UNCHANGED <<metadata, result, calls, attempts>>
       ELSE \E reply \in replies :
              LET r == verify_llm(reply)
                  md == ExtendChecks(metadata, r.val)
              IN /\ calls' = Append(calls,
                        Call(VerifierPrompt(question, VerifierInput), reply))
                 /\ IF ~r.ok \/ r.val.type # "dict"
                    THEN \* json.loads or verify_result.get raises
                         /\ pc' = Unhandled
                         /\ UNCHANGED <<metadata, result, attempts>>
                    ELSE /\ metadata' = md
                         /\ attempts' = Append(attempts,
                                [plan_text |-> plan_text,
                                 exec_result |-> exec_result,
                                 verify_result |-> r.val])
                         /\ IF Accepts(r.val)
                            THEN /\ result' = SuccessResult(exec_result, md)
                                 /\ pc' = "returned"
                            ELSE /\ result' = result
                                 /\ pc' = "for"
    /\ UNCHANGED <<question, max_retries, attempt, plan_text, exec_result,
                   other>>

VerifyStep == VerifyWith(VerifyReplies)

\* gemini_call raises (transport, authentication, quota)
ServiceError ==
    /\ pc \in {"plan", "execute", "verify"}
    /\ pc = "verify" => VerifierInput.type = "dict"
    /\ calls' = Append(calls, FailedCall(NextPrompt))
    /\ pc' = Unhandled
    /\ UNCHANGED <<question, max_retries, attempt, metadata, plan_text,
                   exec_result, result, attempts, other>>

\* lines 196-201: the range is exhausted
ReturnFailed ==
    /\ pc = "for"
    /\ ~RangeHasNext(attempt, max_retries)
    /\ result' = FailedResult(metadata)
    /\ pc' = "returned"
    /\ UNCHANGED <<question, max_retries, attempt, metadata, plan_text,
                   exec_result, calls, attempts, other>>

Next ==
    \/ LoopNext
    \/ PlanStep
    \/ ExecuteStep
    \/ VerifyStep
    \/ ServiceError
    \/ ReturnFailed

Spec == Init /\ [][Next]_vars

\* ------------------------------------------------- termination of solve
\* one reply of every kind the loop tells apart: an execution record, a non-object, unparseable text, an accepting verdict, a rejecting
\* one, one without passed, and two documents in one response
ExecRepliesOfEachKind ==
    { PyStr(<<"E_full">>),
      PyStr(<<"A_list">>),
      PyStr(<<"o", "o", "p", "s">>) }

VerifyRepliesOfEachKind ==
    { PyStr(<<"V_pass">>),
      PyStr(<<Fence, "json", "\n", "V_fail", "\n", Fence>>),
      PyStr(<<"V_nopassed">>),
      PyStr(<<"V_pass", "V_pass">>) }

ExecuteOfKind == ExecuteWith(ExecRepliesOfEachKind)
VerifyOfKind == VerifyWith(VerifyRepliesOfEachKind)

NextLive ==
    \/ LoopNext
    \/ PlanStep
    \/ ExecuteOfKind
    \/ VerifyOfKind
    \/ ServiceError
    \/ ReturnFailed

\* solve is one blocking call sequence: as long as every Generation Client
\* call returns or raises, the statement it stands at is executed
SpecLive == Init /\ [][NextLive]_vars /\ WF_vars(NextLive)

\* ----------------------------------------------------- fenced responses
\* the documents that are complete execution records and complete verdicts
ValidExecDocs == {"E_full", "E_long", "E_notes"}
ValidVerdictDocs == {"V_pass", "V_fail"}

\* a document bare, and inside the two kinds of code fence, with and
\* without line breaks
Wrappings(d) ==
    { <<d>>,
      <<Fence, "json", "\n", d, "\n", Fence>>,
      <<Fence, "\n", d, "\n", Fence>>,
      <<Fence, "json", d, Fence, "\n">>,
      <<" ", Fence, d, Fence>> }

Fenced(docs) == { PyStr(w) : w \in UNION { Wrappings(d) : d \in docs } }

ExecuteFenced == ExecuteWith(Fenced(ValidExecDocs))
VerifyFenced == VerifyWith(Fenced(ValidVerdictDocs))

\* one attempt is enough to apply execute and verify_llm to every wrapping
InitFence == Init /\ max_retries = 0

NextFence ==
    \/ LoopNext
    \/ PlanStep
    \/ ExecuteFenced
    \/ VerifyFenced
    \/ ReturnFailed

SpecFence == InitFence /\ [][NextFence]_vars

\* ------------------------------------------------ two invocations of solve
\* the locals of an invocation, as they are kept while it is suspended
Locals ==
    [question |-> question, max_retries |-> max_retries, pc |-> pc,
     attempt |-> attempt, metadata |-> metadata, plan_text |-> plan_text,
     exec_result |-> exec_result, result |-> result, calls |-> calls,
     attempts |-> attempts]

\* the locals of an invocation that has not executed a statement yet
NewCall(q, m) ==
    [question |-> q, max_retries |-> m, pc |-> "for", attempt |-> 0 - 1,
     metadata |-> InitialMetadata, plan_text |-> <<>>, exec_result |-> None,
     result |-> None, calls |-> <<>>, attempts |-> <<>>]

\* the accumulator is one object shared by all invocations
OwnMetadata_Shared(c) == metadata

\* line 170: metadata is a dictionary created by the invocation itself
OwnMetadata(c) == c.metadata

InFlight(c) == c.pc \in {"plan", "execute", "verify"}
Over(c) == c.pc \in {"returned", "raised"}

\* the running invocation blocks in a Generation Client call, or is over,
\* and the other one runs; overlapped records that both were in flight
Switch ==
    /\ other # None
    /\ InFlight(Locals) \/ Over(Locals)
    /\ ~Over(other.call)
    /\ other' = [call |-> Locals,
                 overlapped |-> \/ other.overlapped
                                \/ InFlight(Locals) /\ InFlight(other.call)]
    /\ question' = other.call.question
    /\ max_retries' = other.call.max_retries
    /\ pc' = other.call.pc
    /\ attempt' = other.call.attempt
    /\ metadata' = OwnMetadata(other.call)
    /\ plan_text' = other.call.plan_text
    /\ exec_result' = other.call.exec_result
    /\ result' = other.call.result
    /\ calls' = other.call.calls
    /\ attempts' = other.call.attempts

PairPlanReplies == { PyStr(<<"\n", "1", ".", "a", "\n">>), None }
PairExecReplies ==
    { PyStr(<<"E_full">>),
      PyStr(<<Fence, "json", "\n", "E_long", "\n", Fence>>),
      PyStr(<<"o", "o", "p", "s">>) }
PairVerifyReplies ==
    { PyStr(<<"V_pass">>),
      PyStr(<<Fence, "json", "\n", "V_fail", "\n", Fence>>) }

PlanOfPair == PlanWith(PairPlanReplies)
ExecuteOfPair == ExecuteWith(PairExecReplies)
VerifyOfPair == VerifyWith(PairVerifyReplies)

\* two invocations with different questions, each allowed MaxRetries
\* retries
InitPair ==
    /\ InitCall
    /\ question = "q1"
    /\ max_retries = MaxRetries
    /\ other = [call |-> NewCall("q2", MaxRetries), overlapped |-> FALSE]

NextPair ==
    \/ LoopNext
    \/ PlanOfPair
    \/ ExecuteOfPair
    \/ VerifyOfPair
    \/ ReturnFailed
    \/ Switch

SpecPair == InitPair /\ [][NextPair]_vars

\* ================================================================ claims
Returned == pc = "returned"
Succeeded == Returned /\ result.status = "success"
Failed == Returned /\ result.status = "failed"

HasField(d, key) == key \in DOMAIN d.val
PassedIsTrue(v) == HasField(v, "passed") /\ v.val["passed"] = PyBool(TRUE)
PassedIsFalse(v) == HasField(v, "passed") /\ v.val["passed"] = PyBool(FALSE)
ChecksOf(v) == IF HasField(v, "checks") THEN v.val["checks"].val ELSE <<>>

LastAttempt == attempts[Len(attempts)]

\* the checks of the first n evaluated attempts, in order
RECURSIVE AllChecks(_)
AllChecks(n) ==
    IF n = 0 THEN <<>>
    ELSE AllChecks(n - 1) \o ChecksOf(attempts[n].verify_result)

IsPrefix(s, t) == Len(s) <= Len(t) /\ s = SubSeq(t, 1, Len(s))

RoleAt(j) ==
    CASE (j - 1) % 3 = 0 -> "PLANNER"
      [] (j - 1) % 3 = 1 -> "EXECUTOR"
      [] (j - 1) % 3 = 2 -> "VERIFIER"

PlannerCalls ==
    Cardinality({j \in 1..Len(calls) : calls[j].prompt.role = "PLANNER"})

\* C1: a success result comes from a last attempt whose verdict has
\* passed = true, and its answer is that attempt's proposed_answer.
C1_SuccessIsLastAttempt ==
    Succeeded =>
        /\ PassedIsTrue(LastAttempt.verify_result)
        /\ HasField(LastAttempt.exec_result, "proposed_answer")
        /\ result.answer = LastAttempt.exec_result.val["proposed_answer"]

\* C2: when each of the max_retries + 1 attempts is rejected with
\* passed = false, solve returns the failed result: empty answer, the fixed
\* sentence and the metadata accumulated over all attempts; a failed result
\* never carries anything but the empty answer and the fixed sentence.
C2_ExhaustedFails ==
    Returned =>
        /\ ( /\ max_retries >= 0
             /\ Len(attempts) = max_retries + 1
             /\ \A i \in 1..Len(attempts) :
                    PassedIsFalse(attempts[i].verify_result) )
           => result = [answer |-> PyStr(<<>>),
                        status |-> "failed",
                        reasoning_visible_to_user |-> PyStr(FailureSentence),
                        metadata |->
                            [plan |-> PyStr(LastAttempt.plan_text),
                             checks |-> AllChecks(Len(attempts)),
                             retries |-> max_retries]]
        /\ result.status = "failed"
           => /\ result.answer = PyStr(<<>>)
              /\ result.reasoning_visible_to_user = PyStr(FailureSentence)

C2_Witness ==
    /\ Failed
    /\ Len(attempts) = 2
    /\ \A i \in 1..2 : PassedIsFalse(attempts[i].verify_result)
    /\ HasField(attempts[1].exec_result, "proposed_answer")
    /\ Len(result.metadata.checks) >= 3

\* C3: the Generation Client is called for plan, execute, verify in turn;
\* an attempt whose verdict has passed = true is the last one: solve has
\* returned success with retries = its index after exactly 3 * (index + 1)
\* calls.
C3_StopsAtFirstAccepted ==
    /\ \A j \in 1..Len(calls) : calls[j].prompt.role = RoleAt(j)
    /\ \A i \in 1..Len(attempts) :
          PassedIsTrue(attempts[i].verify_result)
          => /\ i = Len(attempts)
             /\ Succeeded
             /\ result.metadata.retries = i - 1
             /\ Len(calls) = 3 * i
             /\ \A j \in 1..Len(calls) : calls[j].outcome = "text"

C3_Witness ==
    /\ Succeeded
    /\ Len(attempts) = 2
    /\ PassedIsFalse(attempts[1].verify_result)
    /\ PassedIsTrue(attempts[2].verify_result)
    /\ Len(calls) = 6
    /\ result.metadata.retries = 1

\* C4: metadata.checks is always the concatenation, in attempt order, of the
\* checks of the attempts verified so far; every step only appends to it,
\* and the returned metadata holds all of them.
C4_ChecksAppendOnly ==
    /\ [](/\ metadata.checks = AllChecks(Len(attempts))
          /\ Returned => result.metadata.checks = AllChecks(Len(attempts)))
    /\ [][IsPrefix(metadata.checks, metadata.checks')]_vars

C4_Witness ==
    /\ Returned
    /\ Len(attempts) = 2
    /\ ~PassedIsTrue(attempts[1].verify_result)
    /\ Len(ChecksOf(attempts[1].verify_result)) = 2
    /\ Len(ChecksOf(attempts[2].verify_result)) = 1
    /\ result.metadata.checks = ChecksOf(attempts[1].verify_result)
                                \o ChecksOf(attempts[2].verify_result)

\* C5 as stated: for every integer max_retries, a returned result has
\* 0 <= metadata.retries <= max_retries.
C5_RetriesInRangeForEveryArgument ==
    Returned =>
        0 <= result.metadata.retries /\ result.metadata.retries <= max_retries

\* C5 amended: for max_retries >= 0 a returned result has
\* 0 <= metadata.retries <= max_retries; for max_retries < 0 it has
\* metadata.retries = 0.
C5_RetriesInRange ==
    Returned =>
        IF max_retries >= 0
        THEN 0 <= result.metadata.retries
             /\ result.metadata.retries <= max_retries
        ELSE result.metadata.retries = 0

C5_Witness ==
    /\ Succeeded
    /\ max_retries = 1
    /\ result.metadata.retries = max_retries

\* C6 as stated: at most max_retries + 1 attempts are started in every run,
\* and the returned retries is the index of the last attempt executed.
C6_AttemptsAtMostRetriesPlusOne ==
    Returned =>
        /\ PlannerCalls <= max_retries + 1
        /\ PlannerCalls > 0 => result.metadata.retries = PlannerCalls - 1

\* C6 amended: at most max_retries + 1 attempts are started when
\* max_retries >= -1 and none when it is smaller; the returned retries is
\* the index of the last attempt executed, and 0 when none was executed.
C6_AttemptsBounded ==
    /\ PlannerCalls <= (IF max_retries >= -1 THEN max_retries + 1 ELSE 0)
    /\ Returned
       => result.metadata.retries =
              (IF PlannerCalls > 0 THEN PlannerCalls - 1 ELSE 0)

C6_Witness ==
    /\ Returned
    /\ max_retries = 1
    /\ PlannerCalls = 2
    /\ result.metadata.retries = 1

\* a call of the log that raised inside plan, execute or verify_llm
CallRaised(c) ==
    \/ c.outcome = "error"
    \/ /\ c.prompt.role \in {"EXECUTOR", "VERIFIER"}
       /\ ~JsonLoads(ReplaceFence(ReplaceFenceJson(
                         Strip(gemini_call(c.reply))))).ok

\* C7: a call that raised (service failure, or a reply that does not parse
\* in execute or verify) is the last call of the run, and the run has ended
\* with the error and without a result.
C7_ErrorsPropagate ==
    /\ \A j \in 1..Len(calls) :
          CallRaised(calls[j])
          => j = Len(calls) /\ pc = "raised" /\ result = None
    /\ pc = "raised" => result = None

C7_Witness ==
    /\ pc = "raised"
    /\ max_retries = 1
    /\ Len(calls) \in {1, 2, 3}
    /\ CallRaised(calls[Len(calls)])
    /\ result = None

ExecFields == {"proposed_answer", "explanation"}
VerdictFields == {"passed", "checks", "issues"}

\* C8: execute does not return an execution result that lacks
\* proposed_answer or explanation, verify does not return a verdict that
\* lacks passed, checks or issues, so no attempt is evaluated on one.
C8_RequiredFieldsPresent ==
    /\ (pc = "verify" /\ exec_result.type = "dict")
       => ExecFields \subseteq DOMAIN exec_result.val
    /\ \A i \in 1..Len(attempts) :
          /\ ExecFields \subseteq DOMAIN attempts[i].exec_result.val
          /\ VerdictFields \subseteq DOMAIN attempts[i].verify_result.val

\* attempt i ended the run with a success result
Accepted(i) == i = Len(attempts) /\ Succeeded

\* C9: an attempt is accepted if and only if its verdict has passed = true.
C9_AcceptedIffPassedTrue ==
    \A i \in 1..Len(attempts) :
        Accepted(i) <=> PassedIsTrue(attempts[i].verify_result)

ExplanationOf(e) ==
    IF HasField(e, "explanation") THEN e.val["explanation"].val ELSE <<>>

\* C10 as stated: the reasoning has at most 250 characters; on success it is
\* the first 250 characters of the accepted attempt's explanation, on
\* failure the fixed sentence.
C10_ReasoningIsCutExplanation ==
    Returned =>
        /\ Len(result.reasoning_visible_to_user.val) <= SummaryLimit
        /\ result.status = "success"
           => /\ HasField(LastAttempt.exec_result, "explanation")
              /\ result.reasoning_visible_to_user =
                    PyStr(Prefix(ExplanationOf(LastAttempt.exec_result),
                                 SummaryLimit))
        /\ result.status = "failed"
           => result.reasoning_visible_to_user = PyStr(FailureSentence)

\* C10 amended: the reasoning has at most 250 characters; on success it is
\* the accepted attempt's explanation (empty when the field is absent) with
\* leading and trailing whitespace removed and then cut to its first 250
\* characters, on failure the fixed sentence.
C10_ReasoningIsTrimmedCutExplanation ==
    Returned =>
        /\ Len(result.reasoning_visible_to_user.val) <= SummaryLimit
        /\ result.status = "success"
           => result.reasoning_visible_to_user =
                 PyStr(Prefix(Strip(ExplanationOf(LastAttempt.exec_result)),
                              SummaryLimit))
        /\ result.status = "failed"
           => result.reasoning_visible_to_user = PyStr(FailureSentence)

C10_Witness ==
    /\ Succeeded
    /\ Len(Strip(ExplanationOf(LastAttempt.exec_result))) > SummaryLimit
    /\ Len(result.reasoning_visible_to_user.val) = SummaryLimit
    /\ result.reasoning_visible_to_user.val[SummaryLimit] = "y"

\* the index in the log of the Planner call of the latest attempt
LastPlannerCall == 3 * (PlannerCalls - 1) + 1

\* C11: every call carries the question solve was given; the Planner's
\* prompt is made of the question alone and the Executor's of the question
\* and the plan of the same attempt, so neither depends on the verdict,
\* execution result or plan of an earlier attempt.
C11_RetriesUninformed ==
    \A j \in 1..Len(calls) :
        /\ calls[j].prompt.question = question
        /\ calls[j].prompt.role = "PLANNER"
           => calls[j].prompt = [role |-> "PLANNER", question |-> question]
        /\ calls[j].prompt.role = "EXECUTOR"
           => calls[j].prompt = [role |-> "EXECUTOR", question |-> question,
                                 plan_text |-> plan(calls[j - 1].reply)]

C11_Witness ==
    /\ Len(calls) >= 5
    /\ Len(attempts) >= 1
    /\ HasField(attempts[1].verify_result, "issues")
    /\ Len(attempts[1].verify_result.val["issues"].val) > 0
    /\ calls[4].prompt = calls[1].prompt
    /\ calls[5].prompt.role = "EXECUTOR"

ResultFields == {"answer", "status", "reasoning_visible_to_user", "metadata"}
MetadataFields == {"plan", "checks", "retries"}
CheckFields == {"check_name", "passed", "details"}

ResultShape(planTypes) ==
    /\ DOMAIN result = ResultFields
    /\ result.status \in {"success", "failed"}
    /\ DOMAIN result.metadata = MetadataFields
    /\ result.metadata.plan.type \in planTypes
    /\ result.metadata.retries \in Int
    /\ \A i \in 1..Len(result.metadata.checks) :
          DOMAIN result.metadata.checks[i] = CheckFields

C17_StagesUseOwnAttempt ==
    \A j \in 1..Len(calls) :
        /\ calls[j].prompt.role = "EXECUTOR"
           => /\ calls[j - 1].prompt.role = "PLANNER"
              /\ calls[j - 1].outcome = "text"
              /\ calls[j].prompt.plan_text = plan(calls[j - 1].reply)
        /\ calls[j].prompt.role = "VERIFIER"
           => /\ calls[j - 1].prompt.role = "EXECUTOR"
              /\ calls[j - 1].outcome = "text"
              /\ LET e == execute(calls[j - 1].reply).val
                 IN /\ calls[j].prompt.proposed_answer =
                          (IF HasField(e, "proposed_answer")
                           THEN e.val["proposed_answer"] ELSE PyStr(<<>>))
                    /\ calls[j].prompt.explanation =
                          (IF HasField(e, "explanation")
                           THEN e.val["explanation"] ELSE PyStr(<<>>))

C17_Witness ==
    /\ Len(calls) = 6
    /\ plan(calls[1].reply) # plan(calls[4].reply)
    /\ calls[5].prompt.plan_text = plan(calls[4].reply)
    /\ execute(calls[2].reply).val # execute(calls[5].reply).val
    /\ calls[6].prompt.proposed_answer # calls[3].prompt.proposed_answer

ExecutionRecords ==
    {JsonTable[k] : k \in {"E_full", "E_long", "E_notes", "E_noanswer",
                           "E_empty"}}

\* two execution results with the same proposed_answer and explanation
SameAnswerAndExplanation(e1, e2) ==
    /\ DOMAIN e1.val \cap ExecFields = DOMAIN e2.val \cap ExecFields
    /\ \A k \in DOMAIN e1.val \cap ExecFields : e1.val[k] = e2.val[k]

\* C18: the Verifier's prompt has the question, the proposed_answer and the
\* explanation and nothing else: any execution result with the same
\* proposed_answer and explanation gives the prompt that was sent.
C18_VerifierPromptIgnoresIntermediate ==
    \A j \in 1..Len(calls) :
        calls[j].prompt.role = "VERIFIER"
        => /\ DOMAIN calls[j].prompt =
                 {"role", "question", "proposed_answer", "explanation"}
           /\ \A d \in ExecutionRecords :
                 SameAnswerAndExplanation(d, execute(calls[j - 1].reply).val)
                 => VerifierPrompt(question, d) = calls[j].prompt

C18_Witness ==
    /\ Len(calls) >= 3
    /\ calls[3].prompt.role = "VERIFIER"
    /\ execute(calls[2].reply).val = JsonTable["E_notes"]
    /\ SameAnswerAndExplanation(JsonTable["E_full"], JsonTable["E_notes"])
    /\ JsonTable["E_full"] # JsonTable["E_notes"]

\* the loop took the verdict of evaluated attempt i as a pass
TakenAsPass(i) == Accepts(attempts[i].verify_result)

\* C19 as stated: a failed result means max_retries + 1 attempts were
\* executed and all were rejected; a success result with retries = k means
\* attempts 0..k-1 were rejected and attempt k was accepted.
C19_StatusFromOutcomes ==
    /\ Failed
       => /\ Len(attempts) = max_retries + 1
          /\ \A i \in 1..Len(attempts) : ~TakenAsPass(i)
    /\ Succeeded
       => /\ Len(attempts) = result.metadata.retries + 1
          /\ \A i \in 1..(Len(attempts) - 1) : ~TakenAsPass(i)
          /\ TakenAsPass(Len(attempts))

\* C19 amended: a failed result means max_retries + 1 attempts (none when
\* max_retries < 0) were executed and all were rejected; a success result
\* with retries = k means attempts 0..k-1 were rejected and attempt k was
\* accepted.
C19_StatusFromOutcomesOrNoAttempt ==
    /\ Failed
       => /\ Len(attempts) = (IF max_retries >= 0 THEN max_retries + 1 ELSE 0)
          /\ \A i \in 1..Len(attempts) : ~TakenAsPass(i)
    /\ Succeeded
       => /\ Len(attempts) = result.metadata.retries + 1
          /\ \A i \in 1..(Len(attempts) - 1) : ~TakenAsPass(i)
          /\ TakenAsPass(Len(attempts))

C19_Witness ==
    /\ Failed
    /\ max_retries = 1
    /\ Len(attempts) = 2
    /\ ~TakenAsPass(1) /\ ~TakenAsPass(2)

Terminated == pc \in {"returned", "raised"}

\* ACCEPTED, EXHAUSTED or aborted: exactly one of them, with a result only
\* in the first two
OneTerminalOutcome ==
    \/ pc = "returned" /\ result # None /\ result.status = "success"
                       /\ Accepts(LastAttempt.verify_result)
    \/ pc = "returned" /\ result # None /\ result.status = "failed"
                       /\ ~RangeHasNext(attempt, max_retries)
    \/ pc = "raised" /\ result = None

\* a terminal outcome is final and a result, once returned, is never
\* replaced
ReturnsAtMostOnce ==
    /\ ~Terminated
    /\ result = None
    /\ result' # None => pc' = "returned"

\* C16 as stated: provided every Generation Client call returns or fails,
\* solve terminates, after at most 3 * (max_retries + 1) calls, in exactly
\* one terminal outcome, and returns a result at most once.
C16_TerminatesWithinStatedBound ==
    /\ <>Terminated
    /\ [](Terminated => /\ Len(calls) <= 3 * (max_retries + 1)
                        /\ OneTerminalOutcome)
    /\ [][ReturnsAtMostOnce]_vars

\* C16 amended: the same, with the bound 3 * (max_retries + 1) calls when
\* max_retries >= 0 and no call at all when max_retries < 0.
C16_Terminates ==
    /\ <>Terminated
    /\ [](/\ Len(calls) <= (IF max_retries >= 0
                            THEN 3 * (max_retries + 1) ELSE 0)
          /\ Terminated => OneTerminalOutcome
          /\ ~Terminated => result = None)
    /\ [][ReturnsAtMostOnce]_vars

C16_Witness ==
    /\ Terminated
    /\ max_retries = 1
    /\ Len(calls) = 3 * (max_retries + 1)
    /\ result # None

\* C14: for every complete execution record, execute on the record inside
\* a code fence (with or without the word json) succeeds and returns what
\* execute returns on the bare record; verify_llm does the same for a
\* complete verdict; no response of this kind makes solve raise.
C14_FenceStrippingPreservesParse ==
    /\ \A j \in 1..Len(calls) :
          /\ calls[j].prompt.role = "EXECUTOR"
             => \E d \in ValidExecDocs :
                   /\ calls[j].reply.val \in Wrappings(d)
                   /\ execute(calls[j].reply).ok
                   /\ execute(calls[j].reply) = execute(PyStr(<<d>>))
          /\ calls[j].prompt.role = "VERIFIER"
             => \E d \in ValidVerdictDocs :
                   /\ calls[j].reply.val \in Wrappings(d)
                   /\ verify_llm(calls[j].reply).ok
                   /\ verify_llm(calls[j].reply) = verify_llm(PyStr(<<d>>))
    /\ pc # "raised"
    /\ pc = "verify"
       => \E d \in ValidExecDocs :
             /\ calls[Len(calls)].reply.val \in Wrappings(d)
             /\ exec_result = execute(PyStr(<<d>>)).val
    /\ \A i \in 1..Len(attempts) :
          \E d \in ValidVerdictDocs :
             /\ calls[3 * i].reply.val \in Wrappings(d)
             /\ attempts[i].verify_result = verify_llm(PyStr(<<d>>)).val

C14_Witness ==
    /\ Returned
    /\ calls[2].reply = PyStr(<<Fence, "json", "\n", "E_full", "\n", Fence>>)
    /\ calls[3].reply = PyStr(<<Fence, "\n", "V_pass", "\n", Fence>>)
    /\ attempts[1].exec_result = execute(PyStr(<<"E_full">>)).val
    /\ attempts[1].verify_result = verify_llm(PyStr(<<"V_pass">>)).val
    /\ result.status = "success"

Replies(cs) == [i \in 1..Len(cs) |-> cs[i].reply]

Aborted == [pc |-> "raised", result |-> None]

\* how solve(q, m) ends when it runs alone and the Generation Client
\* answers its calls with rs, in order: a is the index of the attempt that
\* comes next and md the metadata so far
RECURSIVE RunAloneFrom(_, _, _, _)
RunAloneFrom(m, a, md, rs) ==
    IF ~RangeHasNext(a - 1, m)
    THEN [pc |-> "returned", result |-> FailedResult(md)]
    ELSE IF Len(rs) < 3
    THEN Aborted
    ELSE LET e == execute(rs[2])
             v == verify_llm(rs[3])
             md1 == ExtendChecks(StorePlan([md EXCEPT !.retries = a],
                                           plan(rs[1])), v.val)
         IN IF ~e.ok \/ e.val.type # "dict" \/ ~v.ok \/ v.val.type # "dict"
            THEN Aborted
            ELSE IF Accepts(v.val)
            THEN [pc |-> "returned", result |-> SuccessResult(e.val, md1)]
            ELSE RunAloneFrom(m, a + 1, md1, SubSeq(rs, 4, Len(rs)))

RunAlone(c) == RunAloneFrom(c.max_retries, 0, InitialMetadata, Replies(c.calls))

\* the invocation c asked only about its own question, and if it is over it
\* ended as it ends alone on the replies it received
Isolated(c) ==
    /\ \A j \in 1..Len(c.calls) : c.calls[j].prompt.question = c.question
    /\ Over(c) => [pc |-> c.pc, result |-> c.result] = RunAlone(c)

\* C15: when two invocations of solve are interleaved at their Generation
\* Client calls, each returns the result (answer, status, plan, checks,
\* retries) that it returns when it runs alone on the replies it received.
C15_InvocationsIsolated ==
    /\ Isolated(Locals)
    /\ Isolated(other.call)

C15_Witness ==
    /\ other.overlapped
    /\ Returned
    /\ other.call.pc = "returned"
    /\ result.metadata.plan # other.call.result.metadata.plan
    /\ result.metadata.checks # other.call.result.metadata.checks
    /\ result.metadata.retries # other.call.result.metadata.retries
    /\ result.answer # other.call.result.answer
    /\ result.status = other.call.result.status

====
